---- MODULE Spec2Model ----
(***************************************************************************)
(* Model of the skill content store of tiger-docs-mcp-server               *)
(* (skills/index.ts): discovery of SKILL.md manifests, the name            *)
(* normalisation of parseSkillFile, the promise-cached loadSkills and the  *)
(* cached viewSkillContent.  Node's event loop is modelled by one action   *)
(* per stretch of code between two awaits.                                 *)
(***************************************************************************)
EXTENDS Integers, Sequences, FiniteSets, TLC

\* ------------------------------------------------------------------------
\* Bounds of the model
\* ------------------------------------------------------------------------
NumDirs == 2
MaxRuns == 3
NumCallers == 1
MaxNameLen == 2

\* ------------------------------------------------------------------------
\* Strings: a string is a sequence of one-character strings
\* ------------------------------------------------------------------------
Chars == {"a", "A", " ", "!", "-", "_"}

\* the class [a-zA-Z0-9-_] of the test at parseSkillFile
SafeChars == {"a", "A", "-", "_"}
IsSafeChar(c) == c \in SafeChars

\* the class \s
SpaceChars == {" "}
IsSpace(c) == c \in SpaceChars

\* the class [-_]
SepChars == {"-", "_"}
IsSep(c) == c \in SepChars

RECURSIVE StrUpTo(_)
StrUpTo(n) ==
  IF n = 0 THEN {<<>>}
  ELSE LET S == StrUpTo(n - 1)
       IN S \cup {Append(s, c) : s \in {t \in S : Len(t) = n - 1}, c \in Chars}

\* String.prototype.trim, as applied by z.string().trim() and content.trim()
RECURSIVE TrimLeft(_)
TrimLeft(s) ==
  IF s # <<>> /\ IsSpace(Head(s)) THEN TrimLeft(Tail(s)) ELSE s

RECURSIVE TrimRight(_)
TrimRight(s) ==
  IF s # <<>> /\ IsSpace(s[Len(s)]) THEN TrimRight(SubSeq(s, 1, Len(s) - 1))
  ELSE s

Trim(s) == TrimRight(TrimLeft(s))

\* /^[a-zA-Z0-9-_]+$/.test(name)
IsValidName(s) == s # <<>> /\ \A i \in 1..Len(s) : IsSafeChar(s[i])

\* .toLowerCase()
ToLowerCase(s) == [i \in 1..Len(s) |-> IF s[i] = "A" THEN "a" ELSE s[i]]

\* length of the longest prefix of s made of characters of class cls
RECURSIVE RunLen(_, _)
RunLen(s, cls) ==
  IF s # <<>> /\ Head(s) \in cls THEN 1 + RunLen(Tail(s), cls) ELSE 0

Drop(s, n) == SubSeq(s, n + 1, Len(s))

\* .replace(/\s+/g, '-')
RECURSIVE ReplaceSpaceRuns(_)
ReplaceSpaceRuns(s) ==
  IF s = <<>> THEN <<>>
  ELSE IF IsSpace(Head(s))
       THEN <<"-">> \o ReplaceSpaceRuns(Drop(s, RunLen(s, SpaceChars)))
       ELSE <<Head(s)>> \o ReplaceSpaceRuns(Tail(s))

\* .replace(/[^a-z0-9-_]/g, '_')
ReplaceInvalid(s) ==
  [i \in 1..Len(s) |-> IF s[i] \in {"a", "-", "_"} THEN s[i] ELSE "_"]

\* .replace(/-[-_]+/g, '-') for lead = "-" and .replace(/_[_-]+/g, '_') for
\* lead = "_": lead followed by one or more separators becomes lead
RECURSIVE CollapseAfter(_, _)
CollapseAfter(lead, s) ==
  IF s = <<>> THEN <<>>
  ELSE IF Head(s) = lead /\ RunLen(Tail(s), SepChars) >= 1
       THEN <<lead>> \o CollapseAfter(lead, Drop(s, 1 + RunLen(Tail(s), SepChars)))
       ELSE <<Head(s)>> \o CollapseAfter(lead, Tail(s))

\* .replace(/(^[-_]+)|([-_]+$)/g, '')
RECURSIVE StripSepRight(_)
StripSepRight(s) ==
  IF s # <<>> /\ IsSep(s[Len(s)]) THEN StripSepRight(SubSeq(s, 1, Len(s) - 1))
  ELSE s

StripSeps(s) == StripSepRight(Drop(s, RunLen(s, SepChars)))

\* the chain of replacements of parseSkillFile
Normalize(s) ==
  StripSeps(CollapseAfter("_", CollapseAfter("-",
    ReplaceInvalid(ReplaceSpaceRuns(ToLowerCase(s))))))

\* a parseSkillFile that runs the replacements on every name
NormalizeAlways(trimmed) == Normalize(trimmed)

\* the name parseSkillFile returns for a declared name that passed zSkillMatter
SkillName(trimmed) ==
  IF IsValidName(trimmed) THEN trimmed ELSE Normalize(trimmed)


\* ------------------------------------------------------------------------
\* The backing store: the entries of skills/, their SKILL.md and one
\* further file per directory
\* ------------------------------------------------------------------------
Dirs == 1..NumDirs

SKILL_MD == "SKILL.md"
OtherFile == "x.md"
SubPaths == {SKILL_MD, OtherFile}

NULL == 0

NoManifest ==
  [exists |-> FALSE, hasName |-> FALSE, name |-> <<>>,
   hasDesc |-> FALSE, description |-> "", body |-> <<>>]

Manifests(names, descs, bodies) ==
  [exists : {TRUE}, hasName : {TRUE}, name : names,
   hasDesc : {TRUE}, description : descs, body : bodies]

\* manifests that zSkillMatter rejects: no name, or no description
BadManifests ==
  { [exists |-> TRUE, hasName |-> FALSE, name |-> <<>>,
     hasDesc |-> TRUE, description |-> "d1", body |-> <<"x">>],
    [exists |-> TRUE, hasName |-> TRUE, name |-> <<"a">>,
     hasDesc |-> FALSE, description |-> "", body |-> <<"x">>] }

NoFile == [exists |-> FALSE, text |-> <<>>]
Files(texts) == [exists : {TRUE}, text : texts]

\* the text of a SKILL.md file: front matter, then the body
Raw(m) ==
  <<"---">>
  \o (IF m.hasName THEN <<"name:">> \o m.name ELSE <<>>)
  \o (IF m.hasDesc THEN <<"description:", m.description>> ELSE <<>>)
  \o <<"---">> \o m.body

\* gray-matter: the front matter as data, the rest as content
Matter(m) ==
  [data |-> [hasName |-> m.hasName, name |-> m.name,
             hasDesc |-> m.hasDesc, description |-> m.description],
   content |-> m.body]

\* a schema without trim(): a name of blanks passes min(1)
SkillMatterNoTrim(data) ==
  /\ data.hasName
  /\ data.name # <<>>
  /\ data.hasDesc

\* zSkillMatter.parse: name is a string that is non-empty after trimming,
\* description is a string
SkillMatterOk(data) ==
  /\ data.hasName
  /\ Trim(data.name) # <<>>
  /\ data.hasDesc

\* parseSkillFile on a manifest that passes validation
ParseSkillFile(m) ==
  [matter |-> [name |-> SkillName(Trim(Matter(m).data.name)),
               description |-> Matter(m).data.description],
   content |-> Trim(Matter(m).content)]

\* join(skill.path, targetPath): the file the read is addressed to
\* the sub-path `../<d>/<file>`: file `file` of the directory next door
Sibling(d, file) == "../" \o ToString(d) \o "/" \o file

\* join(path, targetPath), normalised as node:path does: `..` leaves the
\* directory, a leading `/` is an ordinary separator
Join(path, targetPath) ==
  LET up == {e \in Dirs \X SubPaths : targetPath = Sibling(e[1], e[2])}
      rooted == {f \in SubPaths : targetPath = "/" \o f}
  IN IF up # {}
     THEN LET e == CHOOSE x \in up : TRUE IN [dir |-> e[1], file |-> e[2]]
     ELSE IF rooted # {}
          THEN [dir |-> path, file |-> CHOOSE f \in rooted : TRUE]
          ELSE [dir |-> path, file |-> targetPath]

\* readFile(loc) against store f: the file's text, or a failure
ReadFile(f, loc) ==
  IF ~f.isDir[loc.dir] THEN NoFile
  ELSE IF loc.file = SKILL_MD
       THEN IF f.manifest[loc.dir].exists
            THEN [exists |-> TRUE, text |-> Raw(f.manifest[loc.dir])]
            ELSE NoFile
       ELSE f.sub[loc.dir]

\* readdir(skillsDir, {withFileTypes: true})
Readdir(f) == [d \in Dirs |-> [name |-> d, isDirectory |-> f.isDir[d]]]

\* ------------------------------------------------------------------------
\* Maps
\* ------------------------------------------------------------------------
EmptyMap == [k \in {} |-> NULL]
MapHas(m, k) == k \in DOMAIN m
MapSet(m, k, v) == [x \in (DOMAIN m) \cup {k} |-> IF x = k THEN v ELSE m[x]]

\* a lookup that ignores case
MapGetIgnoreCase(m, k) ==
  IF MapHas(m, ToLowerCase(k)) THEN {m[ToLowerCase(k)]} ELSE {}

\* skillsMap.get(name): the entry found, as a set that is empty for undefined
MapGet(m, k) == IF MapHas(m, k) THEN {m[k]} ELSE {}

\* `${name}/${targetPath}`
CacheKey(name, targetPath) == name \o <<"/", targetPath>>

\* ------------------------------------------------------------------------
\* State
\* ------------------------------------------------------------------------
VARIABLES
  fs,                 \* the backing store
  skillContentCache,  \* Map<string, string>
  skillMapPromise,    \* NULL or the id of the discovery run it belongs to
  runs,               \* the invocations of doLoadSkills
  callers             \* the viewSkillContent / get_skill requests being served

vars == <<fs, skillContentCache, skillMapPromise, runs, callers>>

Runs == 1..MaxRuns
Callers == 1..NumCallers

NoRun == [st |-> "none", dirEntries |-> <<>>, i |-> 0, skills |-> EmptyMap]

\* the messages of the errors thrown: `Skill not found: ${name}` and
\* `Failed to read skill content: ...` by viewSkillContent,
\* `Skill '${name}' not found` by the tools
ErrSkillNotFound == "Skill not found: "
ErrReadFailed == "Failed to read skill content: "
ErrToolNotFound == "Skill '' not found"

NoResult == [kind |-> "none", text |-> <<>>]
IdleCaller ==
  [pc |-> "idle", op |-> "none", name |-> <<>>, targetPath |-> "",
   promise |-> NULL, path |-> NULL, result |-> NoResult]

NumRuns == Cardinality({r \in Runs : runs[r].st # "none"})
Pending(r) == runs[r].st \in {"readdir", "readFile"}
Resolved(r) == runs[r].st = "resolved"

\* the module's export `skills`: the map of the load made at module load
skills == runs[1].skills


\* ------------------------------------------------------------------------
\* doLoadSkills
\* ------------------------------------------------------------------------
Min(S) == CHOOSE x \in S : \A y \in S : x <= y

\* the next entry after i that passes `if (!entry.isDirectory()) continue`,
\* 0 when the loop is over
NextDirEntry(dirEntries, i) ==
  LET S == {j \in DOMAIN dirEntries : j > i /\ dirEntries[j].isDirectory}
  IN IF S = {} THEN 0 ELSE Min(S)

\* the loop of doLoadSkills moves on from entry run.i with registry sk: it
\* awaits the next directory's SKILL.md, or returns sk
Advance(run, sk) ==
  LET j == NextDirEntry(run.dirEntries, run.i)
  IN IF j = 0
     THEN [st |-> "resolved", dirEntries |-> <<>>, i |-> 0, skills |-> sk]
     ELSE [run EXCEPT !.st = "readFile", !.i = j, !.skills = sk]

\* a duplicate check that never finds the name
NeverExists(sk, name) == FALSE

\* alreadyExists(name, path)
alreadyExists(sk, name) == MapHas(sk, name)

\* doLoadSkills up to its first await: a fresh map, the cache cleared,
\* readdir pending
StartRun(r) ==
  /\ runs' = [runs EXCEPT ![r] = [NoRun EXCEPT !.st = "readdir"]]
  /\ skillContentCache' = EmptyMap

\* readdir settles: on failure the outer catch logs and the empty map is
\* returned; on success the loop starts
ReaddirDone(r) ==
  /\ runs[r].st = "readdir"
  /\ runs' = [runs EXCEPT ![r] =
       IF fs.rootOk
       THEN Advance([runs[r] EXCEPT !.dirEntries = Readdir(fs)], runs[r].skills)
       ELSE [NoRun EXCEPT !.st = "resolved"]]
  /\ UNCHANGED <<fs, skillContentCache, skillMapPromise, callers>>

\* loadLocalPath: readFile of the directory's SKILL.md settles; a failed read
\* or a failed parse is logged and the directory skipped, a duplicate name
\* is skipped, otherwise the skill is registered and its body cached
LoadLocalPathDone(r) ==
  /\ runs[r].st = "readFile"
  /\ LET path == runs[r].dirEntries[runs[r].i].name
         m == fs.manifest[path]
         file == ReadFile(fs, Join(path, SKILL_MD))
         parsed == ParseSkillFile(m)
         name == parsed.matter.name
     IN IF ~file.exists \/ ~SkillMatterOk(Matter(m).data)
        THEN /\ runs' = [runs EXCEPT ![r] = Advance(runs[r], runs[r].skills)]
             /\ UNCHANGED skillContentCache
        ELSE IF alreadyExists(runs[r].skills, name)
        THEN /\ runs' = [runs EXCEPT ![r] = Advance(runs[r], runs[r].skills)]
             /\ UNCHANGED skillContentCache
        ELSE /\ runs' = [runs EXCEPT ![r] = Advance(runs[r],
                  MapSet(runs[r].skills, name,
                         [path |-> path, name |-> name,
                          description |-> parsed.matter.description]))]
             /\ skillContentCache' =
                  MapSet(skillContentCache, CacheKey(name, SKILL_MD), parsed.content)
  /\ UNCHANGED <<fs, skillMapPromise, callers>>

\* ------------------------------------------------------------------------
\* loadSkills
\* ------------------------------------------------------------------------
\* a reuse of the promise only once it has settled
ReusesSettledPromise(force) ==
  skillMapPromise # NULL /\ Resolved(skillMapPromise) /\ ~force

\* `if (skillMapPromise && !force) return skillMapPromise`
ReusesPromise(force) == skillMapPromise # NULL /\ ~force

\* loadSkills(force) returning promise p
LoadSkills(force, p) ==
  IF ReusesPromise(force)
  THEN /\ p = skillMapPromise
       /\ UNCHANGED <<skillMapPromise, runs, skillContentCache>>
  ELSE /\ NumRuns < MaxRuns
       /\ p = NumRuns + 1
       /\ StartRun(p)
       /\ skillMapPromise' = p

CanCall(c) == callers[c].pc \in {"idle", "done"}

\* loadSkills(force) is called directly; the promise it returns is
\* skillMapPromise as the call leaves it
CallLoadSkills(force) ==
  /\ \E p \in Runs : LoadSkills(force, p)
  /\ UNCHANGED <<fs, callers>>

\* ------------------------------------------------------------------------
\* viewSkillContent
\* ------------------------------------------------------------------------
\* viewSkillContent(name, targetPath) up to `await loadSkills()`
CallViewSkillContent(c, name, targetPath) ==
  /\ CanCall(c)
  /\ \E p \in Runs :
       /\ LoadSkills(FALSE, p)
       /\ callers' = [callers EXCEPT ![c] =
            [IdleCaller EXCEPT !.pc = "awaitMap", !.op = "viewSkillContent",
                               !.name = name, !.targetPath = targetPath,
                               !.promise = p]]
  /\ UNCHANGED fs

\* `if (cached) return cached`: a cached string counts when it is truthy
CacheHit(cache, key) == MapHas(cache, key) /\ cache[key] # <<>>

\* the request is over: what the caller keeps is the outcome
Done(caller, kind, text) ==
  [caller EXCEPT !.pc = "done", !.promise = NULL, !.path = NULL,
                 !.result = [kind |-> kind, text |-> text]]

\* the awaited promise is resolved: viewSkillContent looks the skill up,
\* then the cache, then starts the read
MapResolved(c) ==
  /\ callers[c].pc = "awaitMap"
  /\ Resolved(callers[c].promise)
  /\ LET me == callers[c]
         skillsMap == runs[me.promise].skills
         skill == MapGet(skillsMap, me.name)
         cacheKey == CacheKey(me.name, me.targetPath)
     IN callers' = [callers EXCEPT ![c] =
          IF skill = {} THEN Done(me, ErrSkillNotFound, <<>>)
          ELSE IF CacheHit(skillContentCache, cacheKey)
               THEN Done(me, "ok", skillContentCache[cacheKey])
          ELSE [me EXCEPT !.pc = "readFile",
                          !.path = (CHOOSE sk \in skill : TRUE).path]]
  /\ UNCHANGED <<fs, skillContentCache, skillMapPromise, runs>>

\* a read whose content is returned without `skillContentCache.set`
ContentReadNotCached(c) ==
  /\ callers[c].pc = "readFile"
  /\ LET me == callers[c]
         file == ReadFile(fs, Join(me.path, me.targetPath))
     IN callers' = [callers EXCEPT ![c] =
          IF file.exists THEN Done(me, "ok", file.text)
          ELSE Done(me, ErrReadFailed, <<>>)]
  /\ UNCHANGED <<fs, skillContentCache, skillMapPromise, runs>>

\* readFile(join(skill.path, targetPath)) settles: the content is cached and
\* returned, or the read error is replaced by 'Failed to read skill content'
ContentReadDone(c) ==
  /\ callers[c].pc = "readFile"
  /\ LET me == callers[c]
         file == ReadFile(fs, Join(me.path, me.targetPath))
     IN IF file.exists
        THEN /\ skillContentCache' =
                  MapSet(skillContentCache, CacheKey(me.name, me.targetPath), file.text)
             /\ callers' = [callers EXCEPT ![c] = Done(me, "ok", file.text)]
        ELSE /\ callers' = [callers EXCEPT ![c] =
                  Done(me, ErrReadFailed, <<>>)]
             /\ UNCHANGED skillContentCache
  /\ UNCHANGED <<fs, skillMapPromise, runs>>

\* ------------------------------------------------------------------------
\* view_skill / get_skill
\* ------------------------------------------------------------------------
\* the tool's fn: skills.get(name) on the exported map, then
\* viewSkillContent(name, path)
CallGetSkill(c, name, targetPath) ==
  /\ CanCall(c)
  /\ Resolved(1)
  /\ IF MapGet(skills, name) = {}
     THEN /\ callers' = [callers EXCEPT ![c] =
               Done([IdleCaller EXCEPT !.op = "get_skill", !.name = name,
                                       !.targetPath = targetPath],
                    ErrToolNotFound, <<>>)]
          /\ UNCHANGED <<skillMapPromise, runs, skillContentCache>>
     ELSE \E p \in Runs :
            /\ LoadSkills(FALSE, p)
            /\ callers' = [callers EXCEPT ![c] =
                 [IdleCaller EXCEPT !.pc = "awaitMap", !.op = "get_skill",
                                    !.name = name, !.targetPath = targetPath,
                                    !.promise = p]]
  /\ UNCHANGED fs


\* ------------------------------------------------------------------------
\* The environment: files are created, rewritten and deleted
\* ------------------------------------------------------------------------
\* the text a directory's file holds when it is not empty: one per directory
DirText(d) == <<<<"x", "y", "z", "w">>[d]>>

\* what a directory holds: nothing, or the skill "a" with the other file
\* missing, empty or written
DirStates(d) ==
  {[manifest |-> NoManifest, sub |-> NoFile]}
  \cup [manifest : Manifests({<<"a">>}, {"d1"}, {<<"x">>}),
       sub : {NoFile} \cup Files({<<>>, DirText(d)})]

FsChange ==
  /\ \E d \in Dirs :
       \E st \in DirStates(d) :
         /\ <<st.manifest, st.sub>> # <<fs.manifest[d], fs.sub[d]>>
         /\ fs' = [fs EXCEPT !.manifest[d] = st.manifest, !.sub[d] = st.sub]
  /\ UNCHANGED <<skillContentCache, skillMapPromise, runs, callers>>

\* ------------------------------------------------------------------------
\* Search: the values a request carries
\* ------------------------------------------------------------------------
VARIABLES
  enableKeywordSearch,  \* process.env.ENABLE_KEYWORD_SEARCH
  tools,                \* the names registered with the MCP server
  db,                   \* the tables the queries read
  req,                  \* the tool call being served
  alive,                \* the process is running
  schema                \* the schema name of the configuration, its characters

searchVars == <<enableKeywordSearch, tools, db, req, alive, schema>>

\* a JSON value of a request: undefined (the key is absent), null, a number
\* whole + 1/2 when half, a string, an array of strings
JsonValue(t, whole, half, s, items) ==
  [t |-> t, whole |-> whole, half |-> half, s |-> s, items |-> items]

Absent == JsonValue("undefined", 0, FALSE, "", {})
Null == JsonValue("null", 0, FALSE, "", {})
NaN == JsonValue("nan", 0, FALSE, "", {})
Num(whole, half) == JsonValue("number", whole, half, "", {})
Whole(n) == Num(n, FALSE)
Str(s) == JsonValue("string", 0, FALSE, s, {})
Arr(items) == JsonValue("array", 0, FALSE, "", items)

\* the result of a zod parse
Ok(v) == [ok |-> TRUE, value |-> v]
Invalid == [ok |-> FALSE, value |-> Absent]

\* Number(v) as z.coerce applies it: numbers unchanged, a numeric string
\* read, the empty string 0, undefined and other strings NaN
ToNumber(v) ==
  IF v.t = "number" THEN v
  ELSE IF v.t = "null" THEN Whole(0)
  ELSE IF v.t = "string"
       THEN (IF v.s = "" THEN Whole(0)
             ELSE IF v.s = "1" THEN Whole(1)
             ELSE IF v.s = "2" THEN Whole(2)
             ELSE NaN)
  ELSE NaN

\* z.number().min(1): a number, not NaN, at least 1
ZNumberMin1(v) ==
  IF v.t = "number" /\ v.whole >= 1 THEN Ok(v) ELSE Invalid

\* z.string() without min(1)
ZString(v) ==
  IF v.t = "string" THEN Ok(v) ELSE Invalid

\* z.string().min(1)
ZStringMin1(v) ==
  IF v.t = "string" /\ v.s # "" THEN Ok(v) ELSE Invalid

\* z.coerce.number().min(1).nullable(): null passes as null, anything else
\* is turned into a number first
ZLimitCoerceNullable(v) ==
  IF v.t = "null" THEN Ok(Null) ELSE ZNumberMin1(ToNumber(v))

\* z.number().min(1).optional().default(10)
DefaultLimit == 10
ZLimitOptionalDefault(v) ==
  IF v.t = "undefined" THEN Ok(Whole(DefaultLimit)) ELSE ZNumberMin1(v)

\* z.number().int().optional().default(17)
DefaultVersion == 17
ZVersion(v) ==
  IF v.t = "undefined" THEN Ok(Whole(DefaultVersion))
  ELSE IF v.t = "number" /\ ~v.half THEN Ok(v)
  ELSE Invalid

\* z.array(z.string()).nullable()
ZTags(v) ==
  IF v.t \in {"null", "array"} THEN Ok(v) ELSE Invalid

\* ------------------------------------------------------------------------
\* Search: the tools and their input schemas
\* ------------------------------------------------------------------------
PostgresDocs == "semanticSearchPostgresDocs"
TigerDocs == "semanticSearchTigerDocs"
TimescaleDocs == "semanticSearchTimescaleDocs"
TigerBlog == "semanticSearchTigerBlog"
KeywordSearch == "keyword_search_tiger_docs"

\* the factories the versions of apis/index.ts list
apiFactories == <<KeywordSearch, PostgresDocs, TigerDocs, TimescaleDocs, TigerBlog>>

VectorTools == {PostgresDocs, TigerDocs, TimescaleDocs, TigerBlog}

\* the arguments of a tool call; a key the caller leaves out is Absent
Args(prompt, keywords, limit, version, tags) ==
  [prompt |-> prompt, keywords |-> keywords, limit |-> limit,
   version |-> version, tags |-> tags]

\* the parse of an object against a schema of these keys: every key must
\* parse
ParseWith(prompt, keywords, limit, version, tags) ==
  [ok |-> prompt.ok /\ keywords.ok /\ limit.ok /\ version.ok /\ tags.ok,
   value |-> Args(prompt.value, keywords.value, limit.value,
                  version.value, tags.value)]

\* the parse of the arguments against the tool's inputSchema; a key the
\* schema does not name is dropped
ParseInput(tool, args) ==
  CASE tool = PostgresDocs ->
         ParseWith(ZStringMin1(args.prompt), Ok(Absent),
                   ZLimitOptionalDefault(args.limit), ZVersion(args.version), Ok(Absent))
    [] tool \in {TigerDocs, TimescaleDocs} ->
         ParseWith(ZStringMin1(args.prompt), Ok(Absent),
                   ZLimitCoerceNullable(args.limit), Ok(Absent), Ok(Absent))
    [] tool = TigerBlog ->
         ParseWith(ZStringMin1(args.prompt), Ok(Absent),
                   ZLimitCoerceNullable(args.limit), Ok(Absent), ZTags(args.tags))
    [] tool = KeywordSearch ->
         ParseWith(Ok(Absent), ZStringMin1(args.keywords),
                   ZLimitCoerceNullable(args.limit), Ok(Absent), Ok(Absent))

\* `disabled: process.env.ENABLE_KEYWORD_SEARCH !== 'true'`
Disabled(tool, env) == tool = KeywordSearch /\ env # "true"

\* createServer: registerTool for every factory of apiFactories
createServer(env) == {apiFactories[i] : i \in DOMAIN apiFactories}

\* ------------------------------------------------------------------------
\* Search: the database
\* ------------------------------------------------------------------------
NumRows == 2
MaxDist == 1
MaxLimit == 2

PostgresTable == "docs.postgres"
ChunksTable == "timescale_chunks"
BlogTable == "tiger_blog_chunks"

\* a table is the set of its chunks; a chunk as a query sees it: its distance
\* to the embedded prompt (embedding <=> $1), its bm25 distance to the
\* keywords (content <@> ...), the version of docs.postgres, the tags of the
\* blog page it is joined to
Row(distance, bm25, version, tags) ==
  [distance |-> distance, bm25 |-> bm25, version |-> version, tags |-> tags]

\* the query text and parameters handed to pgPool.query: the table read,
\* the WHERE clause if any, the ORDER BY expression, the LIMIT parameter
NoFilter == [kind |-> "none", version |-> Null, tags |-> {}]
VersionFilter(v) == [kind |-> "version", version |-> v, tags |-> {}]
TagsFilter(t) == [kind |-> "tags", version |-> Null, tags |-> t]

Query(table, where, orderBy, limit) ==
  [table |-> table, where |-> where, orderBy |-> orderBy, limit |-> limit]

\* a query whose WHERE clause is left out
MatchesAny(row, where) == TRUE

\* WHERE version = $2 and WHERE p.tags && $2
Matches(row, where) ==
  CASE where.kind = "none" -> TRUE
    [] where.kind = "version" -> Whole(row.version) = where.version
    [] where.kind = "tags" -> row.tags \cap where.tags # {}

\* the value ORDER BY sorts on, ascending
SortKey(row, orderBy) ==
  IF orderBy = "distance" THEN row.distance ELSE row.bm25

\* the row with the bm25 distance itself as its score
SelectedNative(row, orderBy) ==
  IF orderBy = "distance"
  THEN [chunk |-> row, distance |-> row.distance, score |-> 0]
  ELSE [chunk |-> row, distance |-> 0, score |-> row.bm25]

\* the row as the SELECT list returns it: the distance, or the score
\* -(content <@> to_bm25query(...))
Selected(row, orderBy) ==
  IF orderBy = "distance"
  THEN [chunk |-> row, distance |-> row.distance, score |-> 0]
  ELSE [chunk |-> row, distance |-> 0, score |-> 0 - row.bm25]

\* the rows S in any order, as without ORDER BY
OrderedAny(S, orderBy) ==
  {s \in [1..Cardinality(S) -> S] : \A i, j \in DOMAIN s : i # j => s[i] # s[j]}

\* the orders ORDER BY may return the rows S in: ascending, ties in any order
Ordered(S, orderBy) ==
  {s \in [1..Cardinality(S) -> S] :
     /\ \A i, j \in DOMAIN s : i # j => s[i] # s[j]
     /\ \A i, j \in DOMAIN s :
          i < j => SortKey(s[i], orderBy) <= SortKey(s[j], orderBy)}

\* LIMIT n
Truncate(s, n) == IF Len(s) <= n THEN s ELSE SubSeq(s, 1, n)

\* a LIMIT parameter the server can read as bigint
IsBigint(limit) == limit.t = "number" /\ ~limit.half /\ limit.whole >= 0

\* the results the database may answer query q with
QueryResults(q) ==
  LET S == {row \in db[q.table] : Matches(row, q.where)}
  IN {[k \in DOMAIN Truncate(s, q.limit.whole) |-> Selected(s[k], q.orderBy)] :
        s \in Ordered(S, q.orderBy)}

\* ------------------------------------------------------------------------
\* Search: the tool functions and the MCP handler
\* ------------------------------------------------------------------------
\* `limit || 10`: the default for every falsy limit
OrDefault(limit) ==
  IF limit.t \in {"null", "undefined", "nan"} \/ limit = Whole(0)
  THEN Whole(DefaultLimit) ELSE limit

\* `limit ?? 10`: the default for null and undefined
NullishDefault(limit) ==
  IF limit.t \in {"null", "undefined"} THEN Whole(DefaultLimit) ELSE limit

\* `if (tags)`: the filter for every array, the empty one included
BlogFilterArray(tags) ==
  IF tags.t = "array" THEN TagsFilter(tags.items) ELSE NoFilter

\* `if (tags && tags.length > 0)`: WHERE p.tags && $2
BlogFilter(tags) ==
  IF tags.t = "array" /\ tags.items # {} THEN TagsFilter(tags.items) ELSE NoFilter

\* `process.env.DB_SCHEMA || 'docs'`: the schema when none is configured
DefaultSchema == <<"d", "o", "c", "s">>

\* the index the keyword query names, inside the configured schema
ContentIdx == "timescale_chunks_content_idx"

\* the value written into the text in place of its placeholder
RefInline(k, value) == ToString(value)

\* one placeholder for every value, whichever its place in the array
RefSecond(k, value) == "$2"

\* `$k` in a query text: the reference to the k-th element of the parameter
\* array, where `value` is put
Ref(k, value) == <<"$1", "$2", "$3">>[k]

\* the text and the parameter array each fn passes to pgPool.query: the text
\* as the pieces of its template, the schema name spliced in character by
\* character; the blog text is put together from queryParams.length
Sql(tool, input) ==
  LET embedding == Str("embedding")
      Vector(select, from) ==
        <<select, Ref(1, embedding), "::vector(1536) AS distance FROM ">> \o from
      Chunks ==
        [text |->
           Vector("SELECT id::int, content, metadata::text, embedding <=> ",
                  schema \o <<".timescale_chunks">>)
             \o <<" ORDER BY distance LIMIT ", Ref(2, OrDefault(input.limit))>>,
         params |-> <<embedding, OrDefault(input.limit)>>]
      Blog ==
        LET base ==
              Vector("SELECT c.id, c.content, c.metadata::text, c.embedding <=> ",
                     schema \o <<".tiger_blog_chunks c JOIN ">> \o schema
                       \o <<".tiger_blog_pages p ON c.page_id = p.id">>)
            first == <<embedding>>
            filtered == BlogFilter(input.tags) # NoFilter
            where == IF filtered
                     THEN <<" WHERE p.tags && ", Ref(Len(first) + 1, input.tags)>>
                     ELSE <<>>
            second == IF filtered THEN Append(first, input.tags) ELSE first
            limit == OrDefault(input.limit)
        IN [text |-> base \o where
                       \o <<" ORDER BY distance LIMIT ", Ref(Len(second) + 1, limit)>>,
            params |-> Append(second, limit)]
  IN CASE tool = PostgresDocs ->
            [text |->
               Vector("SELECT id::int, header_path, content, token_count::int, embedding <=> ",
                      <<"docs.postgres">>)
                 \o <<" WHERE version = ", Ref(2, input.version),
                      " ORDER BY distance LIMIT ", Ref(3, input.limit)>>,
             params |-> <<embedding, input.version, input.limit>>]
       [] tool \in {TigerDocs, TimescaleDocs} -> Chunks
       [] tool = TigerBlog -> Blog
       [] tool = KeywordSearch ->
            LET limit == NullishDefault(input.limit)
                index == Str(ContentIdx)
                bm25 == <<"content <@> to_bm25query(", Ref(1, input.keywords), ", ",
                          Ref(3, index), ")">>
            IN [text |-> <<"SELECT id::int, content, metadata::text, -(">> \o bm25
                           \o <<") as score FROM ">> \o schema
                           \o <<".timescale_chunks ORDER BY ">> \o bm25
                           \o <<" LIMIT ", Ref(2, limit)>>,
                params |-> <<input.keywords, limit, index>>]

\* the query each fn hands to pgPool.query for its parsed input: what it
\* reads, and the text and parameters that say so
BuildQuery(tool, input) ==
  Sql(tool, input) @@
    CASE tool = PostgresDocs ->
           Query(PostgresTable, VersionFilter(input.version), "distance", input.limit)
      [] tool \in {TigerDocs, TimescaleDocs} ->
           Query(ChunksTable, NoFilter, "distance", OrDefault(input.limit))
      [] tool = TigerBlog ->
           Query(BlogTable, BlogFilter(input.tags), "distance", OrDefault(input.limit))
      [] tool = KeywordSearch ->
           Query(ChunksTable, NoFilter, "bm25", NullishDefault(input.limit))

\* an Error as thrown: its message and its stack
Error(message, stack) == [message |-> message, stack |-> stack]
EmbedError == Error("embedding failed", "at embed")
QueryError == Error("query failed", "at pgPool.query")

NoResponse == [isError |-> FALSE, kind |-> "none", text |-> <<>>, results |-> <<>>]

\* the arguments did not parse: the call is refused before the handler
InvalidParams ==
  [isError |-> TRUE, kind |-> "validation", text |-> <<"Invalid arguments">>,
   results |-> <<>>]

\* the handler's try branch: content and structuredContent of the result
ToolResult(results) ==
  [isError |-> FALSE, kind |-> "result", text |-> <<"JSON.stringify(result)">>,
   results |-> results]

\* a catch branch that answers with the stack of the error
ToolErrorWithStack(error) ==
  [isError |-> TRUE, kind |-> "error", text |-> <<"Error: ", error.stack>>,
   results |-> <<>>]

\* the handler's catch branch
ToolError(error) ==
  [isError |-> TRUE, kind |-> "error",
   text |-> <<"Error: ", IF error.message # "" THEN error.message ELSE "Unknown error">>,
   results |-> <<>>]

NoArgs == Args(Absent, Absent, Absent, Absent, Absent)

NoRequest ==
  [pc |-> "idle", tool |-> "", args |-> NoArgs, input |-> NoArgs,
   embedCalls |-> 0, queries |-> <<>>, response |-> NoResponse]

\* the handler has returned its response
Respond(r, response) == [r EXCEPT !.pc = "done", !.response = response]

\* a call of a registered tool arrives: the arguments are parsed; fn runs up
\* to its first await, embed(...) for a vector search, pgPool.query(...) for
\* the keyword search
CallTool(tool, args) ==
  /\ alive
  /\ req.pc = "idle"
  /\ tool \in tools
  /\ LET parsed == ParseInput(tool, args)
         r == [NoRequest EXCEPT !.tool = tool, !.args = args]
     IN req' =
          IF ~parsed.ok THEN Respond(r, InvalidParams)
          ELSE IF tool \in VectorTools
               THEN [r EXCEPT !.pc = "awaitEmbed", !.input = parsed.value,
                              !.embedCalls = 1]
          ELSE [r EXCEPT !.pc = "awaitQuery", !.input = parsed.value,
                         !.queries = <<BuildQuery(tool, parsed.value)>>]
  /\ UNCHANGED <<enableKeywordSearch, tools, db, alive, schema>>

\* embed(...) settles, and is called once more when it has rejected once
EmbedSettlesRetrying ==
  /\ alive
  /\ req.pc = "awaitEmbed"
  /\ \/ req' = [req EXCEPT !.pc = "awaitQuery",
                           !.queries = Append(@, BuildQuery(req.tool, req.input))]
     \/ req' = IF req.embedCalls < 2
               THEN [req EXCEPT !.embedCalls = @ + 1]
               ELSE Respond(req, ToolError(EmbedError))
  /\ UNCHANGED <<enableKeywordSearch, tools, db, alive, schema>>

\* embed(...) settles: with the embedding the query is issued; a rejection
\* leaves fn and reaches the handler's catch
EmbedSettles ==
  /\ alive
  /\ req.pc = "awaitEmbed"
  /\ \/ req' = [req EXCEPT !.pc = "awaitQuery",
                           !.queries = Append(@, BuildQuery(req.tool, req.input))]
     \/ req' = Respond(req, ToolError(EmbedError))
  /\ UNCHANGED <<enableKeywordSearch, tools, db, alive, schema>>

\* pgPool.query(...) settles: the rows are returned as results; a rejection
\* (the connection fails, the LIMIT parameter is no bigint) reaches the catch
QuerySettles ==
  /\ alive
  /\ req.pc = "awaitQuery"
  /\ LET q == req.queries[Len(req.queries)]
     IN \/ /\ IsBigint(q.limit)
           /\ \E rows \in QueryResults(q) : req' = Respond(req, ToolResult(rows))
        \/ req' = Respond(req, ToolError(QueryError))
  /\ UNCHANGED <<enableKeywordSearch, tools, db, alive, schema>>

\* the response is written to the transport; the server awaits the next call
Reply ==
  /\ alive
  /\ req.pc = "done"
  /\ req' = NoRequest
  /\ UNCHANGED <<enableKeywordSearch, tools, db, alive, schema>>

\* SIGINT or SIGTERM: exitHandler ends the process
Signal ==
  /\ alive
  /\ alive' = FALSE
  /\ UNCHANGED <<enableKeywordSearch, tools, db, req, schema>>

\* ------------------------------------------------------------------------
\* Search: requests and tables
\* ------------------------------------------------------------------------
\* the calls a client makes of a tool
Requests(tool) ==
  LET Prompts == {Str(""), Str("q")}
      LimitInputs ==
        {Absent, Null, Str("2")} \cup {Num(w, h) : w \in 0..MaxLimit, h \in BOOLEAN}
      VersionInputs == {Absent, Whole(16), Whole(17), Whole(18)}
      TagInputs == {Null, Arr({}), Arr({"t1"}), Arr({"t1", "t2"})}
  IN CASE tool = PostgresDocs ->
            {Args(p, Absent, l, v, Absent) :
               p \in Prompts, l \in LimitInputs, v \in VersionInputs}
       [] tool \in {TigerDocs, TimescaleDocs} ->
            {Args(p, Absent, l, Absent, Absent) : p \in Prompts, l \in LimitInputs}
       [] tool = TigerBlog ->
            {Args(p, Absent, l, Absent, t) :
               p \in Prompts, l \in LimitInputs, t \in TagInputs}
       [] tool = KeywordSearch ->
            {Args(Absent, k, l, Absent, Absent) : k \in Prompts, l \in LimitInputs}

EmptyDb == [t \in {PostgresTable, ChunksTable, BlogTable} |-> {}]

\* one table holds NumRows chunks, the others none
Databases ==
  LET TablesOf(R) == {T \in SUBSET R : Cardinality(T) = NumRows}
      PostgresRows == {Row(d, 0, v, {}) : d \in 0..MaxDist, v \in {16, 17}}
      ChunkRows == {Row(d, 0 - b, 0, {}) : d \in 0..MaxDist, b \in 0..MaxDist}
      BlogRows == {Row(d, 0, 0, t) : d \in 0..MaxDist, t \in {{}, {"t1"}, {"t2"}}}
  IN {[EmptyDb EXCEPT ![PostgresTable] = T] : T \in TablesOf(PostgresRows)}
     \cup {[EmptyDb EXCEPT ![ChunksTable] = T] : T \in TablesOf(ChunkRows)}
     \cup {[EmptyDb EXCEPT ![BlogTable] = T] : T \in TablesOf(BlogRows)}

\* process.env.ENABLE_KEYWORD_SEARCH: unset, or a string
EnvValues == {"undefined", "true", "TRUE", "1", "false"}

\* the server after createServer, with no call made
InitServer(env, database) ==
  /\ enableKeywordSearch = env
  /\ tools = createServer(env)
  /\ db = database
  /\ req = NoRequest
  /\ alive = TRUE
  /\ schema = DefaultSchema

\* ------------------------------------------------------------------------
\* Startup of the HTTP entry point: migrate.ts and the migrations
\* ------------------------------------------------------------------------
\* the processes started, the migrations of the directory, the events
\* delivered to one process
NumProcs == 2
NumMigrations == 2
MaxEvents == 3

VARIABLES
  procs,  \* the server processes started against the one database
  pg,     \* the database: the advisory lock, the saved migration state,
          \* the indexes, the sessions opened and the statements run
  exit    \* handlingExit and what exitHandler has done

bootVars == <<procs, pg, exit>>

\* a process not started
NoProc ==
  [pc |-> "off", set |-> 0, next |-> 0, err |-> "none",
   closeCalls |-> 0, closed |-> FALSE, settles |-> 0, outcome |-> "pending"]

\* the database before the first start, handlingExit = false
InitBoot(running) ==
  /\ procs = [p \in 1..NumProcs |->
                IF p \in running THEN [NoProc EXCEPT !.pc = "import"] ELSE NoProc]
  /\ pg = [lock |-> 0, saved |-> 0, applied |-> [m \in 1..NumMigrations |-> 0],
           indexes |-> {}, clients |-> {}, texts |-> {}]
  /\ exit = [handlingExit |-> FALSE, starts |-> 0, code |-> 0,
             exits |-> <<>>, events |-> <<>>]

\* a test of the first character only
SchemaNameStartOk(s) == s # <<>> /\ s[1] \in {"a", "d", "o", "c", "s", "_"}

\* /^[a-zA-Z_][a-zA-Z0-9_]*$/.test(schema)
SchemaNameOk(s) ==
  LET letters == {"a", "d", "o", "c", "s"}
  IN /\ s # <<>>
     /\ s[1] \in letters \cup {"_"}
     /\ \A i \in 2..Len(s) : s[i] \in letters \cup {"1", "_"}

\* the promise settled where close() should have been called
SettleUnclosed(pr, err) ==
  [pr EXCEPT !.pc = "settled", !.err = err, !.settles = @ + 1,
             !.outcome = IF err = "none" THEN "resolved" ELSE "rejected"]

\* `stateStore.close().finally(...)`: close() is called with the error of
\* load or up, "none" when set.up has succeeded
CallClose(pr, err) ==
  [pr EXCEPT !.pc = "closing", !.err = err, !.closeCalls = @ + 1]

\* the modules are evaluated: migrate.ts throws for a schema name failing the
\* pattern; otherwise the entry point calls runMigrations(), migrate.load
\* calls stateStore.load and `client = new Client()` is made
Import(p) ==
  /\ procs[p].pc = "import"
  /\ procs' = [procs EXCEPT ![p].pc =
                 IF SchemaNameOk(schema) THEN "connect" ELSE "aborted"]
  /\ UNCHANGED <<pg, exit>>

\* await client.connect()
Connect(p) ==
  /\ procs[p].pc = "connect"
  /\ \/ /\ pg' = [pg EXCEPT !.clients = @ \cup {p}]
        /\ procs' = [procs EXCEPT ![p].pc = "lock"]
     \/ /\ procs' = [procs EXCEPT ![p] = CallClose(@, "connect")]
        /\ UNCHANGED pg
  /\ UNCHANGED exit

\* pg_advisory_lock granted whoever holds the lock
LockAny(p) ==
  /\ procs[p].pc = "lock"
  /\ pg' = [pg EXCEPT !.lock = p]
  /\ procs' = [procs EXCEPT ![p].pc = "load"]
  /\ UNCHANGED exit

\* SELECT pg_advisory_lock($1): returns once no other session holds the
\* lock; the query may also reject
Lock(p) ==
  /\ procs[p].pc = "lock"
  /\ \/ /\ pg.lock = 0
        /\ pg' = [pg EXCEPT !.lock = p]
        /\ procs' = [procs EXCEPT ![p].pc = "load"]
     \/ /\ procs' = [procs EXCEPT ![p] = CallClose(@, "lock")]
        /\ UNCHANGED pg
  /\ UNCHANGED exit

\* CREATE SCHEMA, CREATE TABLE <schema>.migrations, SELECT set: the saved
\* state is handed to migrate, which goes on after the last migration run
Load(p) ==
  /\ procs[p].pc = "load"
  /\ \/ /\ pg' = [pg EXCEPT !.texts =
                    @ \cup {"CREATE SCHEMA", "CREATE TABLE", "SELECT set"}]
        /\ procs' = [procs EXCEPT ![p].pc = "up", ![p].set = pg.saved,
                                  ![p].next = pg.saved + 1]
     \/ /\ pg' = [pg EXCEPT !.texts = @ \cup {"CREATE SCHEMA"}]
        /\ procs' = [procs EXCEPT ![p] = CallClose(@, "load")]
  /\ UNCHANGED exit

\* set.up: the next migration's up() runs, and set.up calls back when none
\* is left or one has failed.  The first migration returns at once unless
\* keyword search is enabled; enabled, its CREATE INDEX IF NOT EXISTS ON
\* <schema>.timescaledb_chunks, which names no index, is refused or makes the
\* index PostgreSQL names after table and column
Up(p) ==
  /\ procs[p].pc = "up"
  /\ LET m == procs[p].next
         created ==
           IF m = 1 /\ enableKeywordSearch = "true"
           THEN {[table |-> "timescaledb_chunks",
                  name |-> "timescaledb_chunks_content_idx"]}
           ELSE IF m = 2
                THEN {[table |-> "postgres_pages",
                       name |-> "postgres_pages_version_idx"]}
                ELSE {}
     IN IF m > NumMigrations
        THEN /\ procs' = [procs EXCEPT ![p] = CallClose(@, "none")]
             /\ UNCHANGED pg
        ELSE \/ /\ pg' = [pg EXCEPT !.applied[m] = @ + 1,
                                    !.indexes = @ \cup created,
                                    !.texts = @ \cup {"CREATE INDEX"}]
                /\ procs' = [procs EXCEPT ![p].pc = "save"]
             \/ /\ procs' = [procs EXCEPT ![p] = CallClose(@, "up")]
                /\ UNCHANGED pg
  /\ UNCHANGED exit

\* stateStore.save: INSERT INTO <schema>.migrations the set, whose lastRun
\* is the migration just run
Save(p) ==
  /\ procs[p].pc = "save"
  /\ \/ /\ pg' = [pg EXCEPT !.saved = procs[p].next,
                            !.texts = @ \cup {"INSERT"}]
        /\ procs' = [procs EXCEPT ![p].pc = "up", ![p].next = @ + 1]
     \/ /\ pg' = [pg EXCEPT !.texts = @ \cup {"INSERT"}]
        /\ procs' = [procs EXCEPT ![p] = CallClose(@, "save")]
  /\ UNCHANGED exit

\* close() settles: the lock is released if this session holds it and the
\* session ends; then the finally callback rejects with the error or resolves
CloseSettles(p) ==
  /\ procs[p].pc = "closing"
  /\ pg' = [pg EXCEPT !.lock = IF @ = p THEN 0 ELSE @]
  /\ procs' = [procs EXCEPT ![p].pc = "settled", ![p].closed = TRUE,
                            ![p].settles = @ + 1,
                            ![p].outcome =
                              IF procs[p].err = "none" THEN "resolved"
                              ELSE "rejected"]
  /\ UNCHANGED exit

\* `await runMigrations()` returns and httpServerFactory starts the server,
\* whose tools query <schema>.timescale_chunks; or it throws and the entry
\* point rethrows
Serve(p) ==
  /\ procs[p].pc = "settled"
  /\ IF procs[p].outcome = "resolved"
     THEN /\ procs' = [procs EXCEPT ![p].pc = "serving"]
          /\ pg' = [pg EXCEPT !.texts = @ \cup {"SELECT chunks"}]
     ELSE /\ procs' = [procs EXCEPT ![p].pc = "aborted"]
          /\ UNCHANGED pg
  /\ UNCHANGED exit

\* ------------------------------------------------------------------------
\* Shutdown: exitHandler
\* ------------------------------------------------------------------------
\* exitHandler without `if (handlingExit) return`
exitHandlerAlways(event) ==
  /\ exit.exits = <<>>
  /\ Len(exit.events) < MaxEvents
  /\ exit' = [exit EXCEPT !.handlingExit = TRUE, !.starts = @ + 1,
                          !.code = IF event \in {"SIGINT", "SIGTERM"} THEN 0 ELSE 1,
                          !.events = Append(@, event)]
  /\ UNCHANGED <<procs, pg>>

\* an event reaches exitHandler: SIGINT and SIGTERM call exitHandler(), code
\* 0, an uncaught exception and a listen error exitHandler(1).  The first
\* call closes the server and starts the cleanups, the later ones return at
\* once
exitHandler(event) ==
  /\ exit.exits = <<>>
  /\ Len(exit.events) < MaxEvents
  /\ exit' = IF exit.handlingExit
             THEN [exit EXCEPT !.events = Append(@, event)]
             ELSE [exit EXCEPT !.handlingExit = TRUE, !.starts = @ + 1,
                               !.code = IF event \in {"SIGINT", "SIGTERM"}
                                        THEN 0 ELSE 1,
                               !.events = Append(@, event)]
  /\ UNCHANGED <<procs, pg>>

\* Promise.allSettled(...).finally: process.exit(code)
CleanupSettles ==
  /\ exit.starts > 0
  /\ exit.exits = <<>>
  /\ exit' = [exit EXCEPT !.exits = Append(@, exit.code)]
  /\ UNCHANGED <<procs, pg>>

\* ------------------------------------------------------------------------
\* Specifications
\* ------------------------------------------------------------------------
\* names a caller may ask for: the declared names, the registered names and
\* one more
RequestNames ==
  {<<"A">>}
  \cup {fs.manifest[d].name : d \in {e \in Dirs : fs.manifest[e].exists}}
  \cup {SkillName(Trim(fs.manifest[d].name)) :
          d \in {e \in Dirs : SkillMatterOk(Matter(fs.manifest[e]).data)}}

\* the module has been evaluated up to `export const skills = await
\* loadSkills()`: the first discovery is awaiting readdir
InitProgram ==
  /\ skillContentCache = EmptyMap
  /\ skillMapPromise = 1
  /\ runs = [r \in Runs |-> IF r = 1 THEN [NoRun EXCEPT !.st = "readdir"] ELSE NoRun]
  /\ callers = [c \in Callers |-> IdleCaller]

Init ==
  /\ \E st \in [Dirs -> UNION {DirStates(d) : d \in Dirs}] :
       /\ \A d \in Dirs : st[d] \in DirStates(d)
       /\ fs = [rootOk |-> TRUE, isDir |-> [d \in Dirs |-> TRUE],
                manifest |-> [d \in Dirs |-> st[d].manifest],
                sub |-> [d \in Dirs |-> st[d].sub]]
  /\ InitProgram
  /\ InitServer("undefined", EmptyDb)
  /\ InitBoot({})

CallerStep(c) ==
  \/ \E name \in RequestNames, targetPath \in SubPaths :
       CallViewSkillContent(c, name, targetPath)
  \/ \E name \in RequestNames, targetPath \in SubPaths :
       CallGetSkill(c, name, targetPath)
  \/ MapResolved(c)
  \/ ContentReadDone(c)

Discovery(r) == ReaddirDone(r) \/ LoadLocalPathDone(r)

Next ==
  \/ /\ \E c \in Callers : CallerStep(c)
     /\ UNCHANGED <<searchVars, bootVars>>
  \/ /\ CallLoadSkills(FALSE)
     /\ UNCHANGED <<searchVars, bootVars>>
  \/ /\ CallLoadSkills(TRUE)
     /\ UNCHANGED <<searchVars, bootVars>>
  \/ /\ \E r \in Runs : Discovery(r)
     /\ UNCHANGED <<searchVars, bootVars>>
  \/ /\ FsChange
     /\ UNCHANGED <<searchVars, bootVars>>

Spec == Init /\ [][Next]_vars


\* the program when nobody forces a reload
NextOnce ==
  \/ /\ \E c \in Callers : CallerStep(c)
     /\ UNCHANGED <<searchVars, bootVars>>
  \/ /\ CallLoadSkills(FALSE)
     /\ UNCHANGED <<searchVars, bootVars>>
  \/ /\ \E r \in Runs : Discovery(r)
     /\ UNCHANGED <<searchVars, bootVars>>
  \/ /\ FsChange
     /\ UNCHANGED <<searchVars, bootVars>>

SpecOnce == Init /\ [][NextOnce]_vars

\* ------------------------------------------------------------------------
\* get_skill with any string as `path`
\* ------------------------------------------------------------------------
\* inputSchema.path is z.string().default('SKILL.md'): the file names of a
\* skill, the same after a leading `/`, and the paths into a sibling
Paths ==
  SubPaths \cup {"/" \o f : f \in SubPaths}
           \cup {Sibling(d, f) : d \in Dirs, f \in SubPaths}

NextPaths ==
  \/ /\ \E r \in Runs : Discovery(r)
     /\ UNCHANGED <<searchVars, bootVars>>
  \/ /\ \E c \in Callers, name \in RequestNames, targetPath \in Paths :
          CallGetSkill(c, name, targetPath)
     /\ UNCHANGED <<searchVars, bootVars>>
  \/ /\ \E c \in Callers : MapResolved(c)
     /\ UNCHANGED <<searchVars, bootVars>>
  \/ /\ \E c \in Callers : ContentReadDone(c)
     /\ UNCHANGED <<searchVars, bootVars>>

SpecPaths == Init /\ [][NextPaths]_vars

\* ------------------------------------------------------------------------
\* Discovery over every declared name up to MaxNameLen characters
\* ------------------------------------------------------------------------
Description(d) == <<"d1", "d2", "d3", "d4">>[d]

\* the SKILL.md of directory d declaring `name`; its body ends in a blank
ManifestOf(d, name) ==
  [exists |-> TRUE, hasName |-> TRUE, name |-> name,
   hasDesc |-> TRUE, description |-> Description(d),
   body |-> DirText(d) \o <<" ">>]

\* what skills/ may hold at a position: a plain file, a directory without
\* SKILL.md, one whose SKILL.md fails validation, or one declaring one of
\* `names`
Entries(names) ==
  {[isDir |-> FALSE, manifest |-> NoManifest],
   [isDir |-> TRUE, manifest |-> NoManifest]}
  \cup [isDir : {TRUE}, manifest : BadManifests]
  \cup {[isDir |-> TRUE, manifest |-> ManifestOf(1, n)] : n \in names}

\* the manifest as directory d holds it: description and body are d's own
InDir(d, m) ==
  IF m.exists /\ m.hasName /\ m.hasDesc THEN ManifestOf(d, m.name) ELSE m

StoreOf(ok, e) ==
  [rootOk |-> ok, isDir |-> [d \in Dirs |-> e[d].isDir],
   manifest |-> [d \in Dirs |-> InDir(d, e[d].manifest)],
   sub |-> [d \in Dirs |-> [exists |-> TRUE, text |-> DirText(d)]]]

\* the directories declare a name of up to MaxNameLen characters, the name
\* it is registered under, or "a"; or skills/ itself cannot be listed
InitDiscover ==
  /\ \/ \E name \in StrUpTo(MaxNameLen) :
          \E e \in [Dirs -> Entries({name, SkillName(Trim(name)), <<"a">>})] :
            fs = StoreOf(TRUE, e)
     \/ fs = StoreOf(FALSE, [d \in Dirs |-> [isDir |-> TRUE, manifest |-> ManifestOf(d, <<"a">>)]])
  /\ InitProgram
  /\ InitServer("undefined", EmptyDb)
  /\ InitBoot({})

\* a request for the content stored under a name some SKILL.md declares
LookupDeclared(c) ==
  \/ \E d \in Dirs, targetPath \in SubPaths :
       CallViewSkillContent(c, fs.manifest[d].name, targetPath)
  \/ \E d \in Dirs, targetPath \in SubPaths :
       CallGetSkill(c, fs.manifest[d].name, targetPath)
  \/ MapResolved(c)
  \/ ContentReadDone(c)

NextDiscover ==
  \/ /\ \E r \in Runs : Discovery(r)
     /\ UNCHANGED <<searchVars, bootVars>>
  \/ /\ LookupDeclared(1)
     /\ UNCHANGED <<searchVars, bootVars>>

SpecDiscover == InitDiscover /\ [][NextDiscover]_vars

\* ------------------------------------------------------------------------
\* The search tools over every table of NumRows rows
\* ------------------------------------------------------------------------
\* a skills/ directory without skills
NoSkillsStore == StoreOf(TRUE, [d \in Dirs |-> [isDir |-> FALSE, manifest |-> NoManifest]])

NextSearch ==
  \/ /\ \E tool \in tools : \E args \in Requests(tool) : CallTool(tool, args)
     /\ UNCHANGED <<vars, bootVars>>
  \/ /\ EmbedSettles
     /\ UNCHANGED <<vars, bootVars>>
  \/ /\ QuerySettles
     /\ UNCHANGED <<vars, bootVars>>
  \/ /\ Reply
     /\ UNCHANGED <<vars, bootVars>>

\* keyword search is enabled; the first discovery has found no skill
InitSearch ==
  /\ fs = NoSkillsStore
  /\ skillContentCache = EmptyMap
  /\ skillMapPromise = 1
  /\ runs = [r \in Runs |-> IF r = 1 THEN [NoRun EXCEPT !.st = "resolved"] ELSE NoRun]
  /\ callers = [c \in Callers |-> IdleCaller]
  /\ \E database \in Databases : InitServer("true", database)
  /\ InitBoot({})

SpecSearch == InitSearch /\ [][NextSearch]_<<vars, searchVars>>

\* ------------------------------------------------------------------------
\* The server under every value of ENABLE_KEYWORD_SEARCH, until a signal
\* ------------------------------------------------------------------------
NextServer ==
  \/ /\ \E tool \in tools : \E args \in Requests(tool) : CallTool(tool, args)
     /\ UNCHANGED <<vars, bootVars>>
  \/ /\ EmbedSettles
     /\ UNCHANGED <<vars, bootVars>>
  \/ /\ QuerySettles
     /\ UNCHANGED <<vars, bootVars>>
  \/ /\ Reply
     /\ UNCHANGED <<vars, bootVars>>
  \/ /\ Signal
     /\ UNCHANGED <<vars, bootVars>>

InitServerEnv ==
  /\ fs = NoSkillsStore
  /\ skillContentCache = EmptyMap
  /\ skillMapPromise = 1
  /\ runs = [r \in Runs |-> IF r = 1 THEN [NoRun EXCEPT !.st = "resolved"] ELSE NoRun]
  /\ callers = [c \in Callers |-> IdleCaller]
  /\ \E env \in EnvValues : InitServer(env, EmptyDb)
  /\ InitBoot({})

SpecServer == InitServerEnv /\ [][NextServer]_<<vars, searchVars>>

\* ------------------------------------------------------------------------
\* NumProcs servers starting against one database, under any schema name
\* ------------------------------------------------------------------------
\* the schema name is the default or any name of one or two characters
InitMigrate ==
  /\ fs = NoSkillsStore
  /\ skillContentCache = EmptyMap
  /\ skillMapPromise = 1
  /\ runs = [r \in Runs |-> IF r = 1 THEN [NoRun EXCEPT !.st = "resolved"] ELSE NoRun]
  /\ callers = [c \in Callers |-> IdleCaller]
  /\ enableKeywordSearch \in EnvValues
  /\ LET chars == {"a", "1", "_", "-"}
     IN schema \in {DefaultSchema} \cup {<<c>> : c \in chars}
                     \cup {<<c, d>> : c \in chars, d \in chars}
  /\ tools = {}
  /\ db = EmptyDb
  /\ req = NoRequest
  /\ alive = TRUE
  /\ InitBoot(1..NumProcs)

NextMigrate ==
  \/ /\ \E p \in 1..NumProcs : Import(p)
     /\ UNCHANGED <<vars, searchVars>>
  \/ /\ \E p \in 1..NumProcs : Connect(p)
     /\ UNCHANGED <<vars, searchVars>>
  \/ /\ \E p \in 1..NumProcs : Lock(p)
     /\ UNCHANGED <<vars, searchVars>>
  \/ /\ \E p \in 1..NumProcs : Load(p)
     /\ UNCHANGED <<vars, searchVars>>
  \/ /\ \E p \in 1..NumProcs : Up(p)
     /\ UNCHANGED <<vars, searchVars>>
  \/ /\ \E p \in 1..NumProcs : Save(p)
     /\ UNCHANGED <<vars, searchVars>>
  \/ /\ \E p \in 1..NumProcs : CloseSettles(p)
     /\ UNCHANGED <<vars, searchVars>>
  \/ /\ \E p \in 1..NumProcs : Serve(p)
     /\ UNCHANGED <<vars, searchVars>>

SpecMigrate == InitMigrate /\ [][NextMigrate]_<<vars, searchVars, bootVars>>

\* ------------------------------------------------------------------------
\* The events that end the process
\* ------------------------------------------------------------------------
NextExit ==
  \/ /\ \E event \in {"SIGINT", "SIGTERM", "uncaughtException", "listen error"} :
          exitHandler(event)
     /\ UNCHANGED <<vars, searchVars>>
  \/ /\ CleanupSettles
     /\ UNCHANGED <<vars, searchVars>>

SpecExit == InitMigrate /\ [][NextExit]_<<vars, searchVars, bootVars>>

\* ------------------------------------------------------------------------
\* Properties of loadSkills and viewSkillContent
\* ------------------------------------------------------------------------
\* the registry a caller's content() request works with
RegistryOf(c) == runs[callers[c].promise].skills

\* the registry in force: the map of the run skillMapPromise belongs to
CurrentRegistry == runs[skillMapPromise].skills

\* C1: while a discovery run is in flight no call, forced or not, starts a
\* second run: a forced reload returns the result of the run in flight
C1_ReloadInFlightShared ==
  [][(\E r \in Runs : Pending(r)) =>
       /\ NumRuns' = NumRuns
       /\ skillMapPromise' = skillMapPromise]_vars

\* C2: once no run is in flight, every cached text of a sub-resource belongs
\* to a name of the registry in force and was read from the location that
\* registry gives the name: no entry written by a read made under an older
\* registry is left
C2_NoStaleCacheEntry ==
  (\A r \in Runs : ~Pending(r)) =>
    \A n \in {<<"a">>, <<"A">>} :
      LET key == CacheKey(n, OtherFile)
      IN (MapHas(skillContentCache, key) /\ skillContentCache[key] # <<>>) =>
           /\ MapHas(CurrentRegistry, n)
           /\ skillContentCache[key] = DirText(CurrentRegistry[n].path)

\* C3: without a forced reload the run started at module load is the only
\* one: every loadSkills() call, alone or inside viewSkillContent, pending
\* discovery or not, returns the promise of that run and starts nothing
C3_DiscoveryOnce ==
  [][/\ NumRuns' = 1
     /\ skillMapPromise' = 1
     /\ \A p \in Runs : LoadSkills(FALSE, p) => (p = 1 /\ runs' = runs)
     /\ \A c \in Callers : callers'[c].promise \in {NULL, 1}]_vars

\* a non-forced call was made while the first discovery was still pending
C3_Witness ==
  /\ Pending(1)
  /\ \E c \in Callers : callers[c].pc = "awaitMap" /\ callers[c].promise = 1

\* C4: a content() request for a registered name whose (name, subPath) text
\* is in the cache returns that text without reading the backing store,
\* whatever the text, the empty one included
C4_CachedTextReturned ==
  [][\A c \in Callers :
       (/\ callers[c].pc = "awaitMap"
        /\ callers'[c].pc # "awaitMap"
        /\ MapHas(RegistryOf(c), callers[c].name)
        /\ MapHas(skillContentCache, CacheKey(callers[c].name, callers[c].targetPath)))
       => /\ callers'[c].pc = "done"
          /\ callers'[c].result =
               [kind |-> "ok",
                text |-> skillContentCache[CacheKey(callers[c].name, callers[c].targetPath)]]]_vars

\* C5: a request for a name that is not a key of the registry ends with
\* 'not found' at once (no read is started), whatever the sub-path, and
\* leaves the registry and the cache as they were: viewSkillContent against
\* the map it awaited, the tool against the exported map
C5_UnregisteredNotFound ==
  [][\A c \in Callers :
       /\ (/\ callers[c].pc = "awaitMap"
           /\ callers'[c].pc # "awaitMap"
           /\ ~MapHas(RegistryOf(c), callers[c].name))
          => /\ callers'[c].pc = "done"
             /\ callers'[c].result.kind = ErrSkillNotFound
             /\ UNCHANGED <<runs, skillContentCache, skillMapPromise>>
       /\ (/\ CanCall(c)
           /\ callers'[c] # callers[c]
           /\ callers'[c].op = "get_skill"
           /\ ~MapHas(skills, callers'[c].name))
          => /\ callers'[c].pc = "done"
             /\ callers'[c].result.kind = ErrToolNotFound
             /\ UNCHANGED <<runs, skillContentCache, skillMapPromise>>]_vars

\* viewSkillContent has answered 'not found' for a name the registry lacks
C5_Witness ==
  \E c \in Callers :
    /\ callers[c].pc = "done"
    /\ callers[c].op = "viewSkillContent"
    /\ callers[c].result.kind = ErrSkillNotFound
    /\ ~MapHas(skills, callers[c].name)
    /\ skills # EmptyMap

\* whether directory d holds a readable file named targetPath, and its text
Readable(d, targetPath) ==
  /\ fs.isDir[d]
  /\ IF targetPath = SKILL_MD THEN fs.manifest[d].exists ELSE fs.sub[d].exists

\* C6: when the read of a registered name's sub-resource settles, a failed
\* read ends with 'failed to read', which is not one of the 'not found'
\* errors, and leaves the cache as it was; a successful read returns the text
\* with exactly the entry of (name, subPath) set to it, every other entry
\* and the registry unchanged
C6_ReadOutcome ==
  [][\A c \in Callers :
       (callers[c].pc = "readFile" /\ callers'[c].pc # "readFile") =>
         LET me == callers[c]
             key == CacheKey(me.name, me.targetPath)
         IN /\ runs' = runs
            /\ callers'[c].pc = "done"
            /\ IF Readable(me.path, me.targetPath)
               THEN /\ callers'[c].result.kind = "ok"
                    /\ DOMAIN skillContentCache' = DOMAIN skillContentCache \cup {key}
                    /\ skillContentCache'[key] = callers'[c].result.text
                    /\ \A k \in DOMAIN skillContentCache \ {key} :
                         skillContentCache'[k] = skillContentCache[k]
               ELSE /\ callers'[c].result.kind = ErrReadFailed
                    /\ ErrReadFailed \notin {ErrSkillNotFound, ErrToolNotFound}
                    /\ skillContentCache' = skillContentCache]_vars

\* a read of the other file of a registered skill has failed, after the
\* manifest body was cached
C6_Witness ==
  \E c \in Callers :
    /\ callers[c].pc = "done"
    /\ callers[c].targetPath = OtherFile
    /\ callers[c].result.kind = ErrReadFailed
    /\ MapHas(skills, callers[c].name)
    /\ MapHas(skillContentCache, CacheKey(callers[c].name, SKILL_MD))

\* ------------------------------------------------------------------------
\* Properties of discovery
\* ------------------------------------------------------------------------
\* a character outside [A-Za-z0-9-_] occurs in s
HasUnsafe(s) == \E i \in 1..Len(s) : s[i] \notin SafeChars

\* a whitespace character or an uppercase letter occurs in s
HasSpaceOrUpper(s) == \E i \in 1..Len(s) : s[i] \in {" ", "A"}

\* entry d of skills/ is a directory whose SKILL.md can be read and declares
\* a name that is not blank and a description
ValidDir(d) ==
  /\ fs.isDir[d]
  /\ fs.manifest[d].exists
  /\ fs.manifest[d].hasName
  /\ fs.manifest[d].hasDesc
  /\ \E i \in 1..Len(fs.manifest[d].name) : fs.manifest[d].name[i] # " "

ValidDirs == {d \in Dirs : ValidDir(d)}

\* the name directory d is to be registered under: its declared name
\* trimmed, as it stands when every character is allowed, else normalized
KeyOf(d) ==
  LET t == Trim(fs.manifest[d].name)
  IN IF HasUnsafe(t) THEN Normalize(t) ELSE t

\* the first directory enumerated among those yielding key k
FirstOf(k) == Min({d \in ValidDirs : KeyOf(d) = k})

NotFoundKinds == {ErrSkillNotFound, ErrToolNotFound}

\* C7, as stated: a declared name with a whitespace character or an
\* uppercase letter is registered under its normalized form and not under
\* the declared name
C7_SpaceOrUpperNormalized ==
  (Resolved(1) /\ fs.rootOk) =>
    \A d \in ValidDirs :
      HasSpaceOrUpper(fs.manifest[d].name) =>
        /\ MapHas(skills, Normalize(fs.manifest[d].name))
        /\ ~MapHas(skills, fs.manifest[d].name)

\* C7, amended: a declared name that after trimming holds a character
\* outside [A-Za-z0-9-_] is registered under its normalized form; one that
\* after trimming holds only allowed characters is registered as trimmed,
\* uppercase letters kept; a declared name holding a character outside the
\* class is no key of the registry, and a request under it ends 'not found'
C7_UnsafeNormalized ==
  (Resolved(1) /\ fs.rootOk) =>
    \A d \in ValidDirs :
      LET n == fs.manifest[d].name
          t == Trim(n)
      IN /\ IF HasUnsafe(t) THEN MapHas(skills, Normalize(t)) ELSE MapHas(skills, t)
         /\ HasUnsafe(n) =>
              /\ ~MapHas(skills, n)
              /\ \A c \in Callers :
                   (callers[c].pc = "done" /\ callers[c].name = n) =>
                     callers[c].result.kind \in NotFoundKinds

\* a name with an uppercase letter and a disallowed character is registered
\* in lowercase, and the request under the declared name was refused
C7_Witness ==
  /\ Resolved(1)
  /\ \E d \in ValidDirs :
       LET n == fs.manifest[d].name
       IN /\ HasUnsafe(Trim(n))
          /\ \E i \in 1..Len(n) : n[i] = "A"
          /\ Normalize(Trim(n)) # <<>>
          /\ MapHas(skills, Normalize(Trim(n)))
          /\ skills[Normalize(Trim(n))].path = d
          /\ \E c \in Callers :
               /\ callers[c].pc = "done"
               /\ callers[c].name = n
               /\ callers[c].result.kind = ErrSkillNotFound

\* C8: after a discovery run every key of the registry is a non-empty string
\* of characters of [A-Za-z0-9-_]
C8_KeysSafeNonEmpty ==
  \A r \in Runs : Resolved(r) =>
    \A k \in DOMAIN runs[r].skills : k # <<>> /\ ~HasUnsafe(k)

\* C9: when several directories yield the same name, the entry has the path
\* and the description of the first one enumerated, and the text cached for
\* the name's SKILL.md is the body of that one
C9_FirstDuplicateWins ==
  (Resolved(1) /\ fs.rootOk) =>
    \A k \in {KeyOf(d) : d \in ValidDirs} :
      Cardinality({d \in ValidDirs : KeyOf(d) = k}) >= 2 =>
        /\ MapHas(skills, k)
        /\ skills[k].path = FirstOf(k)
        /\ skills[k].description = fs.manifest[FirstOf(k)].description
        /\ MapHas(skillContentCache, CacheKey(k, SKILL_MD))
        /\ skillContentCache[CacheKey(k, SKILL_MD)] = Trim(fs.manifest[FirstOf(k)].body)

\* two directories declaring different names were given the same key, and
\* discovery is over
C9_Witness ==
  /\ Resolved(1)
  /\ \E d1, d2 \in ValidDirs :
       /\ d1 < d2
       /\ KeyOf(d1) = KeyOf(d2)
       /\ fs.manifest[d1].name # fs.manifest[d2].name
       /\ MapHas(skills, KeyOf(d1))
       /\ skills[KeyOf(d1)].path = d1

\* C10: every step of a pending discovery run either ends the run with a
\* registry or moves it on to a later entry of skills/, so the run ends
\* after at most one step per entry; the registry it ends with has exactly
\* the names of the directories with a valid SKILL.md, each at such a
\* directory, and is empty when there is none or when skills/ cannot be
\* listed
C10_DiscoveryCompletes ==
  /\ [](Resolved(1) =>
         /\ DOMAIN skills = (IF fs.rootOk THEN {KeyOf(d) : d \in ValidDirs} ELSE {})
         /\ \A k \in DOMAIN skills :
              /\ skills[k].path \in ValidDirs
              /\ KeyOf(skills[k].path) = k)
  /\ [][\A r \in Runs :
          (Pending(r) /\ runs'[r] # runs[r]) =>
            \/ runs'[r].st = "resolved"
            \/ /\ runs'[r].st = "readFile"
               /\ runs'[r].i > runs[r].i
               /\ runs'[r].i <= Len(runs'[r].dirEntries)]_vars

\* a directory without a valid SKILL.md came before one that was registered
C10_Witness ==
  /\ Resolved(1)
  /\ \E d1, d2 \in Dirs :
       /\ d1 < d2
       /\ fs.isDir[d1]
       /\ ~ValidDir(d1)
       /\ ValidDir(d2)
       /\ MapHas(skills, KeyOf(d2))
       /\ skills[KeyOf(d2)].path = d2

\* ------------------------------------------------------------------------
\* Properties of the search tools
\* ------------------------------------------------------------------------
\* a vector search has answered with rows
VectorResult ==
  req.pc = "done" /\ req.tool \in VectorTools /\ req.response.kind = "result"

\* C11: every vector search (Postgres docs, Tiger docs, Timescale docs, blog)
\* that answers a call with a non-empty prompt and an accepted limit n returns
\* at most n rows, in non-decreasing order of distance (n is the number
\* supplied, 10 when none is).
C11_VectorAtMostNByDistance ==
  VectorResult =>
    LET n == IF ToNumber(req.args.limit).t = "number" /\ req.args.limit.t # "null"
             THEN ToNumber(req.args.limit).whole ELSE 10
        rows == req.response.results
    IN /\ req.args.prompt.s # ""
       /\ Len(rows) <= n
       /\ \A i, j \in DOMAIN rows : i < j => rows[i].distance <= rows[j].distance

\* a vector search has returned as many rows as its limit, fewer than the
\* table holds, the first nearer than the last
C11_Witness ==
  /\ VectorResult
  /\ req.args.limit = Whole(MaxLimit)
  /\ Len(req.response.results) = MaxLimit
  /\ req.response.results[1].distance < req.response.results[MaxLimit].distance

\* the keyword search has answered with rows
KeywordResult ==
  req.pc = "done" /\ req.tool = KeywordSearch /\ req.response.kind = "result"

\* C12: the keyword search returns at most n rows, in non-increasing order of
\* score, and the score of a row is the additive inverse of its native bm25
\* distance to the keywords.
C12_KeywordAtMostNByScore ==
  KeywordResult =>
    LET n == IF ToNumber(req.args.limit).t = "number" /\ req.args.limit.t # "null"
             THEN ToNumber(req.args.limit).whole ELSE 10
        rows == req.response.results
    IN /\ Len(rows) <= n
       /\ \A i, j \in DOMAIN rows : i < j => rows[i].score >= rows[j].score
       /\ \A i \in DOMAIN rows : rows[i].score + rows[i].chunk.bm25 = 0

\* the keyword search has returned as many rows as its limit, the first of a
\* higher score than the last
C12_Witness ==
  /\ KeywordResult
  /\ req.args.limit = Whole(MaxLimit)
  /\ Len(req.response.results) = MaxLimit
  /\ req.response.results[1].score > req.response.results[MaxLimit].score

\* C13: a vector search called with the empty string as its prompt fails
\* with a validation error, and neither embed nor pgPool.query is called for
\* that request.
C13_EmptyPromptRejected ==
  (req.pc # "idle" /\ req.tool \in VectorTools /\ req.args.prompt = Str("")) =>
    /\ req.pc = "done"
    /\ req.response.isError
    /\ req.response.kind = "validation"
    /\ req.embedCalls = 0
    /\ req.queries = <<>>

\* a vector search whose other arguments are valid has been refused for its
\* empty prompt
C13_Witness ==
  /\ req.pc = "done"
  /\ req.tool = PostgresDocs
  /\ req.args = Args(Str(""), Absent, Whole(1), Whole(17), Absent)
  /\ req.response.kind = "validation"

\* C14: the PostgreSQL docs search returns only chunks of the requested
\* version, 17 when the request omits version; when no chunk has that version
\* the call succeeds with an empty list of results.
C14_PostgresVersionOnly ==
  (VectorResult /\ req.tool = PostgresDocs) =>
    LET version == IF req.args.version = Absent THEN 17 ELSE req.args.version.whole
        rows == req.response.results
    IN /\ \A i \in DOMAIN rows : rows[i].chunk.version = version
       /\ (\A row \in db[PostgresTable] : row.version # version) => rows = <<>>
       /\ (\E row \in db[PostgresTable] : row.version = version) => rows # <<>>

\* a search that omits version has returned the chunk of version 17 of a
\* table that also holds a chunk of version 16
C14_Witness ==
  /\ VectorResult
  /\ req.tool = PostgresDocs
  /\ req.args.version = Absent
  /\ \E row \in db[PostgresTable] : row.version = 16
  /\ Len(req.response.results) >= 1
  /\ req.response.results[1].chunk.version = 17

\* C15: the blog search with a non-empty array of tags returns only chunks
\* of pages that share a tag with it; with tags null or the empty array no
\* chunk is filtered out: the nearest chunks of the whole table are returned.
C15_BlogTagsOverlap ==
  (VectorResult /\ req.tool = TigerBlog) =>
    LET tags == req.args.tags
        rows == req.response.results
        n == IF ToNumber(req.args.limit).t = "number" /\ req.args.limit.t # "null"
             THEN ToNumber(req.args.limit).whole ELSE 10
        wanted == IF tags.t = "array" /\ tags.items # {}
                  THEN {row \in db[BlogTable] : row.tags \cap tags.items # {}}
                  ELSE db[BlogTable]
    IN /\ \A i \in DOMAIN rows : rows[i].chunk \in wanted
       /\ Len(rows) = IF Cardinality(wanted) <= n THEN Cardinality(wanted) ELSE n

\* a search for two tags has returned the chunk of a page that carries one
\* of them and not a chunk of a page without tags
C15_Witness ==
  /\ VectorResult
  /\ req.tool = TigerBlog
  /\ req.args.tags = Arr({"t1", "t2"})
  /\ req.args.limit = Whole(MaxLimit)
  /\ \E row \in db[BlogTable] : row.tags = {}
  /\ Len(req.response.results) = 1
  /\ req.response.results[1].chunk.tags = {"t2"}

\* the call in progress was refused by the validation of its arguments,
\* before embed or pgPool.query was called
Rejected ==
  /\ req.pc = "done"
  /\ req.response.kind = "validation"
  /\ req.embedCalls = 0
  /\ req.queries = <<>>

\* the text the tool searches for is valid
TextValid ==
  IF req.tool = KeywordSearch THEN req.args.keywords # Str("")
  ELSE req.args.prompt # Str("")

\* C16: every search tool accepts a limit supplied as a number if and only
\* if it is an integer of at least 1; a lower number and a number that is
\* not whole, such as 1.5, are refused before embed or pgPool.query is called.
C16_LimitIntegerAtLeastOne ==
  (req.pc # "idle" /\ req.args.limit.t = "number" /\ TextValid) =>
    (Rejected <=> ~(~req.args.limit.half /\ req.args.limit.whole >= 1))

\* C17: limit is optional on every search tool: a call that leaves limit
\* out, or passes null, is accepted and 10 is bound into the query; a call
\* with a whole limit of at least 1 has exactly that number bound.
C17_LimitOptionalDefaultTen ==
  (req.pc # "idle" /\ TextValid) =>
    LET limit == req.args.limit
    IN /\ limit \in {Absent, Null} =>
            /\ ~Rejected
            /\ \A i \in DOMAIN req.queries : req.queries[i].limit = Whole(10)
       /\ (limit.t = "number" /\ ~limit.half /\ limit.whole >= 1) =>
            /\ ~Rejected
            /\ \A i \in DOMAIN req.queries : req.queries[i].limit = limit

\* C18: a vector search that passes validation calls embed exactly once and
\* then pgPool.query at most once, the query only after embed has settled;
\* when embed rejects no query is issued and the caller is answered with
\* that failure; when the query rejects the caller is answered with that
\* failure; neither call is made a second time.
C18_OneEmbedThenOneQuery ==
  (req.pc # "idle" /\ req.tool \in VectorTools /\ ~Rejected) =>
    /\ req.embedCalls = 1
    /\ Len(req.queries) <= 1
    /\ req.pc = "awaitEmbed" => req.queries = <<>>
    /\ req.pc = "awaitQuery" => Len(req.queries) = 1
    /\ (req.pc = "done" /\ req.queries = <<>>) =>
         req.response = ToolError(EmbedError)
    /\ (req.pc = "done" /\ req.response.kind = "error" /\ req.queries # <<>>) =>
         req.response = ToolError(QueryError)

\* embed has rejected: the caller has its failure and no query was issued
C18_Witness ==
  /\ req.pc = "done"
  /\ req.tool \in VectorTools
  /\ req.embedCalls = 1
  /\ req.queries = <<>>
  /\ req.response.isError
  /\ req.response.text = <<"Error: ", EmbedError.message>>

\* ------------------------------------------------------------------------
\* Properties of the server
\* ------------------------------------------------------------------------
\* C19: the keyword search tool is registered if and only if
\* ENABLE_KEYWORD_SEARCH is exactly the string 'true'; for every other value
\* (unset, 'TRUE', '1', ...) the server has no keyword search tool.
C19_KeywordRegisteredIffEnabled ==
  KeywordSearch \in tools <=> enableKeywordSearch = "true"

\* C20: a failing request never ends the server. Every call is answered
\* with a response; when fn has rejected the response has isError set and its
\* text is 'Error: ' followed by the message of the error, never its stack;
\* and no step of a request stops the process or unregisters a tool, so the
\* calls that follow are served.
C20_FailureAnsweredServerAlive ==
  /\ [](req.pc = "done" =>
          /\ req.response.kind \in {"validation", "result", "error"}
          /\ req.response.kind = "error" =>
               /\ req.response.isError
               /\ Len(req.response.text) = 2
               /\ req.response.text[1] = "Error: "
               /\ req.response.text[2] \in {EmbedError.message, QueryError.message}
               /\ req.response.text[2] \notin {EmbedError.stack, QueryError.stack})
  /\ [][req' # req => (alive /\ alive' /\ tools' = tools)]_<<vars, searchVars>>

\* the query of a search has failed: the call is answered with the message
\* and the server is running
C20_Witness ==
  /\ req.pc = "done"
  /\ req.response.isError
  /\ req.response.text = <<"Error: ", QueryError.message>>
  /\ alive

\* C21: when embed or the query fails, the text answered to the caller is a
\* generic message: the same whatever the underlying error, and holding
\* nothing of that error's own message.
C21_FailureTextGeneric ==
  (req.pc = "done" /\ req.response.kind = "error") =>
    \A i \in DOMAIN req.response.text :
      req.response.text[i] \notin {EmbedError.message, QueryError.message}

\* the queries of the call being served, each with the input it was built from
Issued == {req.queries[i] : i \in DOMAIN req.queries}

\* `tags` selects the filtered branch: an array with at least one tag
Filtering(input) == input.tags.t = "array" /\ input.tags.items # {}

\* C22: no value of a request becomes query text: every other accepted
\* request to the same tool in the same tag-filter case, whatever its prompt,
\* keywords, limit, version and tags, yields the very text that was issued,
\* and the values that are sent travel in the parameter array.
C22_ValuesOnlyInParameters ==
  \A q \in Issued :
    /\ \A args \in Requests(req.tool) :
         LET other == ParseInput(req.tool, args)
         IN (other.ok /\ Filtering(other.value) = Filtering(req.input)) =>
              BuildQuery(req.tool, other.value).text = q.text
    /\ q.params[Len(q.params)] \in {q.limit, Str(ContentIdx)}
    /\ req.tool = KeywordSearch => q.params[1] = req.input.keywords
    /\ req.tool = PostgresDocs => q.params[2] = req.input.version
    /\ Filtering(req.input) => q.params[2] = req.input.tags

C22_Witness ==
  /\ req.tool = TigerBlog
  /\ req.pc = "awaitQuery"
  /\ req.input.tags = Arr({"t1"})
  /\ req.input.limit = Whole(2)
  /\ \E args \in Requests(TigerBlog) :
       /\ ParseInput(TigerBlog, args).ok
       /\ ParseInput(TigerBlog, args).value.tags = Arr({"t1", "t2"})
       /\ ParseInput(TigerBlog, args).value.limit = Whole(1)

\* the position a placeholder of a query text refers to, 0 for any other piece
Position(piece) ==
  CASE piece = "$1" -> 1 [] piece = "$2" -> 2 [] piece = "$3" -> 3 [] OTHER -> 0

\* C28: in the blog query every placeholder $k has a k-th parameter and every
\* parameter a placeholder: the embedding is $1, the tags are $2 exactly when
\* the filter is applied, and the limit is the last, $2 without and $3 with
\* the filter.
C28_BlogPlaceholdersMatchParams ==
  (req.tool = TigerBlog) =>
    \A q \in Issued :
      LET used == {Position(q.text[i]) : i \in DOMAIN q.text} \ {0}
          n == IF Filtering(req.input) THEN 3 ELSE 2
      IN /\ used = 1..Len(q.params)
         /\ Len(q.params) = n
         /\ q.params[1] = Str("embedding")
         /\ Filtering(req.input) =>
              /\ q.params[2] = req.input.tags
              /\ \E i \in DOMAIN q.text :
                   /\ i > 1
                   /\ q.text[i - 1] = " WHERE p.tags && "
                   /\ q.text[i] = "$2"
         /\ ~Filtering(req.input) =>
              \A i \in DOMAIN q.text : q.text[i] # " WHERE p.tags && "
         /\ q.params[n] = q.limit
         /\ Position(q.text[Len(q.text)]) = n
         /\ q.text[Len(q.text) - 1] = " ORDER BY distance LIMIT "

C28_Witness ==
  /\ req.tool = TigerBlog
  /\ req.pc = "done"
  /\ req.response.kind = "result"
  /\ Len(req.queries) = 1
  /\ Len(req.queries[1].params) = 3

\* ------------------------------------------------------------------------
\* Properties of the reloaded registry
\* ------------------------------------------------------------------------
\* C24: once a forced reload has settled, the skill tools answer from the
\* registry in force, as the content lookup does: a call of get_skill is
\* refused as an unknown skill exactly when the name is not in that registry.
C24_ToolsFollowReload ==
  [][\A c \in Callers :
       ( /\ CanCall(c)
         /\ callers'[c] # callers[c]
         /\ callers'[c].op = "get_skill"
         /\ \A r \in Runs : ~Pending(r) ) =>
         ( callers'[c].result.kind = ErrToolNotFound
             <=> ~MapHas(CurrentRegistry, callers'[c].name) )]_vars

\* ------------------------------------------------------------------------
\* Properties of the sub-resource paths
\* ------------------------------------------------------------------------
\* C29: whatever sub-path is asked for, a read that answers returns a file of
\* the directory registered for the name: the text handed back is the text of
\* one of that directory's own files.
C29_ReadsInsideOwnDirectory ==
  [][\A c \in Callers :
       ( /\ callers[c].pc = "readFile"
         /\ callers'[c].pc = "done"
         /\ callers'[c].result.kind = "ok" ) =>
         \E f \in SubPaths :
           LET own == ReadFile(fs, [dir |-> callers[c].path, file |-> f])
           IN own.exists /\ own.text = callers'[c].result.text]_vars

\* ------------------------------------------------------------------------
\* Properties of the startup and the shutdown
\* ------------------------------------------------------------------------
\* the schema names tried that ^[a-zA-Z_][a-zA-Z0-9_]*$ matches
Matching ==
  {<<"d", "o", "c", "s">>, <<"a">>, <<"_">>, <<"a", "a">>, <<"a", "1">>,
   <<"a", "_">>, <<"_", "a">>, <<"_", "1">>, <<"_", "_">>}

\* C23: under a schema name the pattern does not match, startup is abandoned
\* at the check: no session with the database is opened, no statement
\* carrying the schema name is run, and no process gets past the import.
C23_InvalidSchemaNeverReachesSql ==
  (schema \notin Matching) =>
    /\ pg.clients = {}
    /\ pg.texts = {}
    /\ \A p \in DOMAIN procs : procs[p].pc \in {"import", "aborted"}

C23_Witness ==
  /\ schema = <<"a", "-">>
  /\ \A p \in DOMAIN procs : procs[p].pc = "aborted"
  /\ pg.clients = {}

\* the section from the loaded state to the last save
InCritical(p) == procs[p].pc \in {"load", "up", "save"}

Mutex ==
  \A p, q \in DOMAIN procs :
    InCritical(p) => (pg.lock = p /\ (InCritical(q) => p = q))

\* C25 as stated: the section load, apply, save runs in one process at a
\* time, and no migration is applied twice.
C25_MutexNeverAppliedTwice ==
  /\ Mutex
  /\ \A m \in DOMAIN pg.applied : pg.applied[m] <= 1

\* C25, amended: the section load, apply, save runs in one process at a time,
\* under the lock taken before the state is loaded and held until close; a
\* migration is applied only by the lock's holder and only while the saved
\* state does not record it (one whose save failed is applied again).
C25_MutexAppliedWhileUnsaved ==
  /\ []Mutex
  /\ [][\A m \in DOMAIN pg.applied :
          (pg.applied'[m] > pg.applied[m]) =>
            /\ pg.saved < m
            /\ pg.lock \in DOMAIN procs
            /\ procs[pg.lock].pc = "up"
            /\ procs[pg.lock].next = m]_<<vars, searchVars, bootVars>>

C25_Witness ==
  \E p, q \in DOMAIN procs :
    /\ procs[p].pc = "save"
    /\ procs[q].pc = "lock"
    /\ pg.lock = p
    /\ pg.applied[1] = 1

\* C26: on every path through runMigrations close() is called once, after the
\* last migration step, and the promise settles once, after close() has
\* finished: rejected exactly when load or up has failed, resolved otherwise.
C26_CloseOnceThenSettle ==
  \A p \in DOMAIN procs :
    LET pr == procs[p]
    IN /\ pr.closeCalls <= 1
       /\ pr.settles <= 1
       /\ pr.pc \in {"connect", "lock", "load", "up", "save"} =>
            (pr.closeCalls = 0 /\ pr.settles = 0)
       /\ pr.pc = "closing" => (pr.closeCalls = 1 /\ pr.settles = 0)
       /\ pr.pc \in {"settled", "serving"} => pr.settles = 1
       /\ pr.settles = 1 =>
            /\ pr.closeCalls = 1
            /\ pr.closed
            /\ pr.outcome = (IF pr.err = "none" THEN "resolved" ELSE "rejected")
       /\ pr.outcome = "resolved" => pr.next > NumMigrations

C26_Witness ==
  \E p, q \in DOMAIN procs :
    /\ procs[p].outcome = "rejected"
    /\ procs[p].err = "load"
    /\ procs[q].outcome = "resolved"
    /\ procs[q].closed

\* C27: whatever events arrive, the shutdown is started at most once and
\* process.exit is called at most once, with the code of the first event:
\* 0 for a signal, 1 for an uncaught exception or a listen error.
C27_ExitOnceFirstCode ==
  /\ exit.starts <= 1
  /\ Len(exit.exits) <= 1
  /\ exit.exits # <<>> =>
       exit.exits[1] =
         (IF exit.events[1] \in {"uncaughtException", "listen error"} THEN 1 ELSE 0)

C27_Witness ==
  /\ exit.events = <<"SIGTERM", "uncaughtException", "SIGINT">>
  /\ exit.exits = <<0>>

\* C30: with keyword search enabled, once the first migration's up() has run
\* the index the keyword query names exists on the table it reads; with
\* keyword search not enabled no such index is made.
C30_IndexMatchesQuery ==
  LET textsearch == {i \in pg.indexes : i.table # "postgres_pages"}
  IN /\ (enableKeywordSearch = "true" /\ pg.applied[1] > 0) =>
          [table |-> ChunksTable, name |-> ContentIdx] \in pg.indexes
     /\ enableKeywordSearch # "true" => textsearch = {}

====
